---------------------------- MODULE Spec2Model ----------------------------
(***************************************************************************)
(* A model of asteroids-rust (src/src/main.rs): the KeyStatus / Keys input *)
(* state machine, the V2 / Momentum kinematics, the Ship entity and the    *)
(* frame loop of main().                                                   *)
(*                                                                         *)
(* Numbers.  An f64 is modelled as a fixed-point integer counting units of *)
(* 1/Scale.  A Duration is a whole number of ticks of 1/TicksPerSec        *)
(* seconds, so f64_duration(d) is the rational d/TicksPerSec and a product *)
(* with it is (x * d) \div TicksPerSec.  Sums are exact; products and the  *)
(* trigonometric functions are rounded to the grid (at most a few units).  *)
(***************************************************************************)
EXTENDS Integers, Sequences, FiniteSets

VARIABLES
    keys,           \* main: `keys`, the Keys record of the six controls
    ship,           \* main: `ship` (angle, thrust flag, momentum)
    pc,             \* main: position in the loop body
    dt,             \* main: `dt`, the elapsed time measured this iteration
    canvas,         \* the back buffer: blank, cleared or holding the sprite
    screen,         \* the front buffer, what canvas.present() last showed
    frame,          \* iterations of the loop completed
    polled,         \* events poll_iter() has yielded in this iteration
    quitRequested,  \* an Event::Quit was among them
    body,           \* a Momentum value exercised on its own
    call,           \* the last method call made on a value exercised on its own
    rock,           \* an Asteroid value exercised on its own
    twin            \* two runs of the main loop fed side by side

vars == <<keys, ship, pc, dt, canvas, screen, frame, polled, quitRequested,
          body, call, rock, twin>>

(***************************************************************************)
(* Bounds of the model.                                                    *)
(***************************************************************************)
MaxBatch == 2      \* events polled in one iteration
MaxFrames == 3     \* iterations of the main loop
MaxCalls == 2      \* calls made on a Momentum or a Ship exercised on its own

(***************************************************************************)
(* Fixed-point representation of f64 and Duration.                         *)
(***************************************************************************)
Scale == 20000
TicksPerSec == 2

\* The elapsed times a frame may measure: 0 s, 0.5 s and a 4 s stall.
DtSet == {0, 1, 8}

(***************************************************************************)
(* KeyStatus                                                               *)
(***************************************************************************)
KeyStatus == {"Up", "Held", "Down"}

KeyStatus_step_noHeld(s) ==
    CASE s = "Down" -> "Down"
      [] s = "Held" -> "Held"
      [] s = "Up"   -> "Up"

KeyStatus_step(s) ==
    CASE s = "Down" -> "Held"
      [] s = "Held" -> "Held"
      [] s = "Up"   -> "Up"

KeyStatus_down_onlyDown(s) ==
    CASE s = "Down" -> TRUE
      [] OTHER      -> FALSE

KeyStatus_down(s) ==
    CASE s = "Down" -> TRUE
      [] s = "Held" -> TRUE
      [] OTHER      -> FALSE

(***************************************************************************)
(* Keys                                                                    *)
(***************************************************************************)
Controls == {"thrust", "left", "right", "fire", "pause", "quit"}

Keys_new ==
    [thrust |-> "Up", left |-> "Up", right |-> "Up",
     fire |-> "Up", pause |-> "Up", quit |-> "Up"]

\* Keycodes: the seven the game maps, one it does not ("A"), and "None" for a
\* key event whose keycode is None.
Keycodes == {"Up", "Left", "Right", "Space", "P", "Q", "Escape", "A", "None"}

KeyEvents ==
    [type : {"KeyDown", "KeyUp"}, key : Keycodes, repeat : BOOLEAN]

QuitEvent == [type |-> "Quit"]
WindowClose == [type |-> "Window", win_event |-> "Close"]
WindowOther == [type |-> "Window", win_event |-> "FocusLost"]
MouseMotion == [type |-> "MouseMotion"]

Events == KeyEvents \cup {QuitEvent, WindowClose, WindowOther, MouseMotion}

\* The first match of the closure: a non-repeat key-down or key-up binds
\* `value`; every other event returns from the closure.
IsEdge(e) == e.type \in {"KeyDown", "KeyUp"} /\ ~e.repeat

EdgeValue(e) == IF e.type = "KeyDown" THEN "Down" ELSE "Up"

\* The inner match on `key`.
KeyControl(key) ==
    CASE key = "Up"     -> "thrust"
      [] key = "Left"   -> "left"
      [] key = "Right"  -> "right"
      [] key = "Space"  -> "fire"
      [] key = "P"      -> "pause"
      [] key = "Q"      -> "quit"
      [] key = "Escape" -> "quit"
      [] OTHER          -> "none"

\* The second match of the closure, reached with `value` bound.
SecondMatch(k, e, value) ==
    CASE e.type \in {"KeyDown", "KeyUp"} /\ e.key # "None" /\ ~e.repeat ->
            IF KeyControl(e.key) = "none" THEN k
            ELSE [k EXCEPT ![KeyControl(e.key)] = value]
      [] e.type = "Quit" -> [k EXCEPT !.quit = "Down"]
      [] e.type = "Window" /\ e.win_event = "Close" -> [k EXCEPT !.quit = "Down"]
      [] OTHER -> k

HandleEvent_repeatCounts(k, e) ==
    IF e.type \in {"KeyDown", "KeyUp"}
    THEN SecondMatch(k, [e EXCEPT !.repeat = FALSE], EdgeValue(e))
    ELSE k

\* Variant: every control is advanced by KeyStatus::step after the event.
HandleEvent_thenStep(k, e) ==
    LET after == IF IsEdge(e) THEN SecondMatch(k, e, EdgeValue(e)) ELSE k
    IN  [c \in Controls |-> KeyStatus_step(after[c])]

\* The closure poll_iter().for_each runs on one event.
HandleEvent(k, e) ==
    IF IsEdge(e) THEN SecondMatch(k, e, EdgeValue(e)) ELSE k

\* Variant: the events of the batch are handled last to first.
RECURSIVE Keys_with_events_reversed(_, _)
Keys_with_events_reversed(k, batch) ==
    IF batch = <<>> THEN k
    ELSE HandleEvent(Keys_with_events_reversed(k, Tail(batch)), Head(batch))

\* Keys::with_events on the batch of events the pump holds.
RECURSIVE Keys_with_events(_, _)
Keys_with_events(k, batch) ==
    IF batch = <<>> THEN k
    ELSE Keys_with_events(HandleEvent(k, Head(batch)), Tail(batch))

(***************************************************************************)
(* V2: a pair of f64                                                       *)
(***************************************************************************)
V2(x, y) == <<x, y>>

V2_ZERO == V2(0, 0)

\* Whole pixels, a speed or an acceleration given in whole units, as f64.
Px(n) == n * Scale

\* f64 % f64: the remainder of the truncating division, with the sign of
\* the dividend.
F64_rem(x, m) == IF x >= 0 THEN x % m ELSE -((-x) % m)

\* `as i32` on an f64: truncation towards zero.
F64_as_i32(x) == IF x >= 0 THEN x \div Scale ELSE -((-x) \div Scale)

\* V2 * f64, the scalar being the rational num/den.
V2_mul(v, num, den) == V2((v[1] * num) \div den, (v[2] * num) \div den)

V2_rem_noShift(v, rhs) == V2(F64_rem(v[1], rhs[1]), F64_rem(v[2], rhs[2]))

\* V2 % V2.
V2_rem(v, rhs) ==
    V2(F64_rem(v[1] + rhs[1], rhs[1]), F64_rem(v[2] + rhs[2], rhs[2]))

\* V2 + V2 (and +=).
V2_add(a, b) == V2(a[1] + b[1], a[2] + b[2])

\* Into<Point> for V2.
V2_into_Point(v) == <<F64_as_i32(v[1]), F64_as_i32(v[2])>>

(***************************************************************************)
(* Momentum                                                                *)
(***************************************************************************)
Momentum_new(position, velocity, bounds) ==
    [pos |-> position, vel |-> velocity, bounds |-> bounds]

\* The position before it is wrapped: line 170-171.
Displaced(m, time, acceleration) ==
    V2_add(V2_add(m.pos, V2_mul(m.vel, time, TicksPerSec)),
           V2_mul(V2_mul(V2_mul(acceleration, 1, 2), time, TicksPerSec),
                  time, TicksPerSec))

Momentum_apply_acceleration_velFirst(m, time, acceleration) ==
    LET v == V2_add(m.vel, V2_mul(acceleration, time, TicksPerSec))
    IN  [m EXCEPT
           !.pos = V2_rem(Displaced([m EXCEPT !.vel = v], time, acceleration),
                          m.bounds),
           !.vel = v]

Momentum_apply_acceleration(m, time, acceleration) ==
    [m EXCEPT
       !.pos = V2_rem(Displaced(m, time, acceleration), m.bounds),
       !.vel = V2_add(m.vel, V2_mul(acceleration, time, TicksPerSec))]

Momentum_no_acceleration_drag(m, time) ==
    Momentum_apply_acceleration(m, time, V2_mul(m.vel, -1, 10))

Momentum_no_acceleration(m, time) ==
    Momentum_apply_acceleration(m, time, V2_ZERO)

Momentum_apply_impulse(m, impulse) ==
    [m EXCEPT !.vel = V2_add(m.vel, impulse)]

\* self.pos = position: the position is stored as given, not wrapped.
Momentum_set_pos(m, position) == [m EXCEPT !.pos = position]

Momentum_get_pos(m) == m.pos

(***************************************************************************)
(* f64::cos and f64::sin on the fixed-point grid: the argument is reduced  *)
(* to [0, pi/2] and the Taylor polynomial of degree 10 (11 for the sine)   *)
(* is evaluated in Horner form.                                            *)
(***************************************************************************)
Pi == 62832
HalfPi == 31416
TwoPi == 125664

CosPoly(x) ==
    LET x2 == (x * x) \div Scale
        h4 == Scale - x2 \div 90
        h3 == Scale - (x2 * h4) \div (56 * Scale)
        h2 == Scale - (x2 * h3) \div (30 * Scale)
        h1 == Scale - (x2 * h2) \div (12 * Scale)
    IN  Scale - (x2 * h1) \div (2 * Scale)

SinPoly(x) ==
    LET x2 == (x * x) \div Scale
        h5 == Scale - x2 \div 110
        h4 == Scale - (x2 * h5) \div (72 * Scale)
        h3 == Scale - (x2 * h4) \div (42 * Scale)
        h2 == Scale - (x2 * h3) \div (20 * Scale)
        h1 == Scale - (x2 * h2) \div (6 * Scale)
    IN  (x * h1) \div Scale

F64_cos(a) ==
    LET r == a % TwoPi
    IN  IF r <= HalfPi THEN CosPoly(r)
        ELSE IF r <= Pi THEN -CosPoly(Pi - r)
        ELSE IF r <= Pi + HalfPi THEN -CosPoly(r - Pi)
        ELSE CosPoly(TwoPi - r)

F64_sin(a) ==
    LET r == a % TwoPi
    IN  IF r <= HalfPi THEN SinPoly(r)
        ELSE IF r <= Pi THEN SinPoly(Pi - r)
        ELSE IF r <= Pi + HalfPi THEN -SinPoly(r - Pi)
        ELSE -SinPoly(TwoPi - r)

(***************************************************************************)
(* Ship                                                                    *)
(***************************************************************************)
ACCEL == 100
ANGULAR_ACCEL == 4

Ship_new ==
    [angle |-> 0,
     momentum |-> Momentum_new(V2(Px(100), Px(100)), V2(0, 0),
                               V2(Px(800), Px(600))),
     thrust |-> FALSE]

\* The angle after the two turn tests of Ship::step.
\* Variant: the right turn is only looked at when left is not active.
Turned_exclusive(angle, duration, left, right) ==
    LET d == (Px(ANGULAR_ACCEL) * duration) \div TicksPerSec
    IN  IF left THEN angle - d ELSE IF right THEN angle + d ELSE angle

Turned(angle, duration, left, right) ==
    LET d == (Px(ANGULAR_ACCEL) * duration) \div TicksPerSec
        a1 == IF left THEN angle - d ELSE angle
    IN  IF right THEN a1 + d ELSE a1

\* Variant: the ship does not turn while it thrusts.
Ship_step_thrustLocksTurn(s, duration, thrust, left, right) ==
    LET angle == IF thrust THEN s.angle
                 ELSE Turned(s.angle, duration, left, right)
        accel == IF thrust
                 THEN V2(F64_cos(angle) * ACCEL, F64_sin(angle) * ACCEL)
                 ELSE V2_ZERO
    IN  [angle |-> angle,
         momentum |-> Momentum_apply_acceleration(s.momentum, duration, accel),
         thrust |-> thrust]

Ship_step(s, duration, thrust, left, right) ==
    LET angle == Turned(s.angle, duration, left, right)
        accel == IF thrust
                 THEN V2(F64_cos(angle) * ACCEL, F64_sin(angle) * ACCEL)
                 ELSE V2_ZERO
    IN  [angle |-> angle,
         momentum |-> Momentum_apply_acceleration(s.momentum, duration, accel),
         thrust |-> thrust]

\* The canvas as the window gives it, and after canvas.clear().
Canvas_blank ==
    [content |-> "blank", centre |-> <<0, 0>>, texture |-> "none",
     rotation |-> 0]

Canvas_clear == [Canvas_blank EXCEPT !.content = "clear"]

\* Ship::draw: the sprite copied to the canvas, its rotation in whole
\* degrees.
Ship_draw(s) ==
    [content |-> "ship",
     centre |-> V2_into_Point(Momentum_get_pos(s.momentum)),
     texture |-> IF s.thrust THEN "thrust_texture" ELSE "inert_texture",
     rotation |-> (s.angle * 180) \div Pi + 90]

(***************************************************************************)
(* main(): the frame loop.  pc names the statement the loop is at:         *)
(*   "events"  inside keys.with_events, in poll_iter().for_each            *)
(*   "check"   at the `if let Keys { quit: Down, .. }` test                *)
(*   "clear"   at `let dt = time.elapsed()` ... canvas.clear()             *)
(*   "step"    at ship.step        "draw"   at ship.draw                   *)
(*   "present" at canvas.present   "sleep"  at thread::sleep               *)
(*   "done"    after the break                                             *)
(***************************************************************************)
NoCall == [op |-> "none", n |-> 0]

NoBody == Momentum_new(V2_ZERO, V2_ZERO, V2(Px(800), Px(600)))

\* The values of `rock` and `twin` where no asteroid and no pair of runs is
\* exercised.
NoRock == [momentum |-> NoBody, radius |-> 0]

NoTwin == <<>>

Aside == <<body, call, rock, twin>>

Init ==
    /\ keys = Keys_new
    /\ ship = Ship_new
    /\ pc = "events"
    /\ dt = 0
    /\ canvas = Canvas_blank
    /\ screen = Canvas_blank
    /\ frame = 0
    /\ polled = 0
    /\ quitRequested = FALSE
    /\ body = NoBody
    /\ call = NoCall
    /\ rock = NoRock
    /\ twin = NoTwin

\* poll_iter() yields one more event and the closure handles it.
PollEvent(e) ==
    /\ pc = "events"
    /\ polled < MaxBatch
    /\ keys' = HandleEvent(keys, e)
    /\ polled' = polled + 1
    /\ quitRequested' = (quitRequested \/ e.type = "Quit")
    /\ UNCHANGED <<ship, pc, dt, canvas, screen, frame, Aside>>

\* poll_iter() is exhausted and with_events returns.
EndPoll ==
    /\ pc = "events"
    /\ pc' = "check"
    /\ UNCHANGED <<keys, ship, dt, canvas, screen, frame, polled,
                   quitRequested, Aside>>

QuitCheck_never ==
    /\ pc = "check"
    /\ pc' = "clear"
    /\ UNCHANGED <<keys, ship, dt, canvas, screen, frame, polled,
                   quitRequested, Aside>>

\* The pattern Keys { quit: KeyStatus::Down, .. } matches k.
QuitTest(k) == k.quit = "Down"

\* if let Keys { quit: KeyStatus::Down, .. } = keys { break; }
QuitCheck ==
    /\ pc = "check"
    /\ pc' = IF QuitTest(keys) THEN "done" ELSE "clear"
    /\ UNCHANGED <<keys, ship, dt, canvas, screen, frame, polled,
                   quitRequested, Aside>>

\* let dt = time.elapsed(); time = Instant::now(); canvas.clear();
Clear(d) ==
    /\ pc = "clear"
    /\ dt' = d
    /\ canvas' = Canvas_clear
    /\ pc' = "step"
    /\ UNCHANGED <<keys, ship, screen, frame, polled, quitRequested, Aside>>

\* Variant: the ship is integrated twice in the iteration.
ShipStep_twice ==
    /\ pc = "step"
    /\ ship' = Ship_step(Ship_step(ship, dt, KeyStatus_down(keys.thrust),
                                   KeyStatus_down(keys.left),
                                   KeyStatus_down(keys.right)),
                         dt, KeyStatus_down(keys.thrust),
                         KeyStatus_down(keys.left), KeyStatus_down(keys.right))
    /\ pc' = "draw"
    /\ UNCHANGED <<keys, dt, canvas, screen, frame, polled, quitRequested,
                   Aside>>

\* ship.step(&dt, keys.thrust.down(), keys.left.down(), keys.right.down());
ShipStep ==
    /\ pc = "step"
    /\ ship' = Ship_step(ship, dt, KeyStatus_down(keys.thrust),
                         KeyStatus_down(keys.left), KeyStatus_down(keys.right))
    /\ pc' = "draw"
    /\ UNCHANGED <<keys, dt, canvas, screen, frame, polled, quitRequested,
                   Aside>>

\* ship.draw(&mut canvas);
ShipDraw ==
    /\ pc = "draw"
    /\ canvas' = Ship_draw(ship)
    /\ pc' = "present"
    /\ UNCHANGED <<keys, ship, dt, screen, frame, polled, quitRequested,
                   Aside>>

\* canvas.present();
Present ==
    /\ pc = "present"
    /\ screen' = canvas
    /\ pc' = "sleep"
    /\ UNCHANGED <<keys, ship, dt, canvas, frame, polled, quitRequested,
                   Aside>>

\* std::thread::sleep(...), and the loop starts its next iteration.
Sleep ==
    /\ pc = "sleep"
    /\ frame + 1 < MaxFrames
    /\ frame' = frame + 1
    /\ polled' = 0
    /\ quitRequested' = FALSE
    /\ pc' = "events"
    /\ UNCHANGED <<keys, ship, dt, canvas, screen, Aside>>

Next ==
    \/ \E e \in Events : PollEvent(e)
    \/ EndPoll
    \/ QuitCheck
    \/ \E d \in DtSet : Clear(d)
    \/ ShipStep
    \/ ShipDraw
    \/ Present
    \/ Sleep

Spec == Init /\ [][Next]_vars

(***************************************************************************)
(* SpecKeys: a Keys value on its own, from Keys::new(), under the closure  *)
(* of with_events and the two KeyStatus methods applied to its fields.     *)
(* `call` records the last call: its operands, the Keys value before it    *)
(* and what it returned.                                                   *)
(***************************************************************************)
MainIdle ==
    /\ ship = Ship_new
    /\ pc = "idle"
    /\ dt = 0
    /\ canvas = Canvas_blank
    /\ screen = Canvas_blank
    /\ frame = 0
    /\ polled = 0
    /\ quitRequested = FALSE
    /\ rock = NoRock
    /\ twin = NoTwin

MainVars == <<pc, dt, canvas, screen, frame, polled, quitRequested, rock,
              twin>>

InitKeys ==
    /\ MainIdle
    /\ keys = Keys_new
    /\ body = NoBody
    /\ call = NoCall

\* The closure of with_events on one event.
CallHandleEvent(e) ==
    /\ keys' = HandleEvent(keys, e)
    /\ call' = [op |-> "event", event |-> e, pre |-> keys, n |-> 0]
    /\ UNCHANGED <<MainVars, ship, body>>

\* keys.<c>.step()
CallKeyStep(c) ==
    /\ keys' = [keys EXCEPT ![c] = KeyStatus_step(keys[c])]
    /\ call' = [op |-> "step", ctl |-> c, pre |-> keys, n |-> 0]
    /\ UNCHANGED <<MainVars, ship, body>>

\* keys.<c>.down()
CallKeyDown(c) ==
    /\ call' = [op |-> "down", ctl |-> c, pre |-> keys,
                ret |-> KeyStatus_down(keys[c]), n |-> 0]
    /\ UNCHANGED <<MainVars, ship, body, keys>>

NextKeys ==
    \/ \E e \in Events : CallHandleEvent(e)
    \/ \E c \in Controls : CallKeyStep(c)
    \/ \E c \in Controls : CallKeyDown(c)

SpecKeys == InitKeys /\ [][NextKeys]_vars

(***************************************************************************)
(* SpecBody: a Momentum on its own, from Momentum::new on arguments drawn  *)
(* from small sets, under apply_acceleration, no_acceleration and          *)
(* apply_impulse.                                                          *)
(***************************************************************************)
Playfield == V2(Px(800), Px(600))

\* The bounds a Momentum is built with: the window of main() and a small
\* field.
BoundsSet == {Playfield, V2(Px(400), Px(300))}

\* Positions in a field of bounds b: the origin, the last point before the
\* far corner, and a point inside (the ship's (100, 100) in the window).
PosSet(b) == {V2(0, 0), V2(b[1] \div 8, b[2] \div 6), V2(b[1] - 1, b[2] - 1)}

\* Velocities in px/s: rest, slow drift, just under and well over a field a
\* second.
VelSet == {V2(0, 0), V2(Px(300), Px(-250)), V2(Px(-150), Px(50)),
           V2(Px(-399), Px(299)), V2(Px(-1000), Px(900))}

\* Accelerations in px/s^2.
AccSet == {V2(Px(100), 0), V2(Px(-60), Px(-80))}

\* Impulses in px/s.
ImpulseSet == {V2(Px(-312), Px(312)), V2(Px(625), Px(-625))}

\* Durations in ticks: 0 s, 0.5 s, 1 s.
BodyDtSet == {0, 1, 2}

\* Positions handed to set_pos, in px: one inside both fields, one below
\* zero on x and many fields away on y.
SetPosSet == {V2(Px(10), Px(20)), V2(Px(-5), Px(9000))}

InitBody ==
    /\ MainIdle
    /\ keys = Keys_new
    /\ \E b \in BoundsSet : \E p \in PosSet(b) : \E v \in VelSet :
           body = Momentum_new(p, v, b)
    /\ call = NoCall

CallApplyAcceleration(t, a) ==
    /\ call.n < MaxCalls
    /\ body' = Momentum_apply_acceleration(body, t, a)
    /\ call' = [op |-> "apply_acceleration", time |-> t, acceleration |-> a,
                pre |-> body, n |-> call.n + 1]
    /\ UNCHANGED <<MainVars, ship, keys>>

CallNoAcceleration(t) ==
    /\ call.n < MaxCalls
    /\ body' = Momentum_no_acceleration(body, t)
    /\ call' = [op |-> "no_acceleration", time |-> t, acceleration |-> V2_ZERO,
                pre |-> body, n |-> call.n + 1]
    /\ UNCHANGED <<MainVars, ship, keys>>

CallApplyImpulse(i) ==
    /\ call.n < MaxCalls
    /\ body' = Momentum_apply_impulse(body, i)
    /\ call' = [op |-> "apply_impulse", impulse |-> i, pre |-> body,
                n |-> call.n + 1]
    /\ UNCHANGED <<MainVars, ship, keys>>

CallSetPos(p) ==
    /\ call.n < MaxCalls
    /\ body' = Momentum_set_pos(body, p)
    /\ call' = [op |-> "set_pos", position |-> p, pre |-> body,
                n |-> call.n + 1]
    /\ UNCHANGED <<MainVars, ship, keys>>

NextBody ==
    \/ \E t \in BodyDtSet, a \in AccSet : CallApplyAcceleration(t, a)
    \/ \E t \in BodyDtSet : CallNoAcceleration(t)
    \/ \E i \in ImpulseSet : CallApplyImpulse(i)
    \/ \E p \in SetPosSet : CallSetPos(p)

SpecBody == InitBody /\ [][NextBody]_vars

(***************************************************************************)
(* SpecShip: the ship of main(), from Ship::new, under Ship::step with any *)
(* elapsed time of DtSet and any thrust / left / right inputs.             *)
(***************************************************************************)
\* The call record of SpecShip also keeps the history of the calls so far:
\* elapsed is the sum of their durations, onlyLeft says that every one of
\* them had left active and right inactive.
InitShip ==
    /\ MainIdle
    /\ keys = Keys_new
    /\ body = NoBody
    /\ call = [op |-> "none", n |-> 0, elapsed |-> 0, onlyLeft |-> TRUE]

CallShipStep(t, thrust, left, right) ==
    /\ call.n < MaxCalls
    /\ ship' = Ship_step(ship, t, thrust, left, right)
    /\ call' = [op |-> "ship_step", time |-> t, thrust |-> thrust,
                left |-> left, right |-> right, pre |-> ship,
                n |-> call.n + 1,
                elapsed |-> call.elapsed + t,
                onlyLeft |-> call.onlyLeft /\ left /\ ~right]
    /\ UNCHANGED <<MainVars, keys, body>>

NextShip ==
    \E t \in DtSet, thrust \in BOOLEAN, left \in BOOLEAN, right \in BOOLEAN :
        CallShipStep(t, thrust, left, right)

SpecShip == InitShip /\ [][NextShip]_vars

(***************************************************************************)
(* Asteroid                                                                *)
(***************************************************************************)
INITIAL_RADIUS == 32
MIN_RADIUS == 7
VELOCITY_CHANGE == 5000

\* f64 / f64, rounded down to the grid; the quotient is built in steps that
\* stay within the integers of the checker.
F64_div(x, y) ==
    LET q == x \div y
        r == x % y
    IN  q * Scale + ((r * 200) \div y) * 100 + (((r * 200) % y) * 100) \div y

Asteroid_new(momentum, radius) == [momentum |-> momentum, radius |-> radius]

Asteroid_new_big_asteroid(momentum) ==
    [momentum |-> momentum, radius |-> Px(INITIAL_RADIUS)]

\* let dv = Asteroid::VELOCITY_CHANGE / new_radius;
SplitDv(new_radius) == F64_div(Px(VELOCITY_CHANGE), new_radius)

\* Values rng.gen_range(-dv, dv) can return: the low end, which is included,
\* a point inside, and the last value below the high end, which is not.
GenRange(dv) == {-dv, 0, dv - 1}

\* The fragments of a split that passed the radius test.
Fragments(a, new_radius, x1, x2, y1, y2) ==
    LET m1 == Momentum_apply_impulse(a.momentum, V2(x1, y1))
        m2 == Momentum_apply_impulse(a.momentum, V2(x2, y2))
    IN  [some |-> TRUE,
         first |-> Asteroid_new(m1, new_radius),
         second |-> Asteroid_new(m2, new_radius)]

Asteroid_split_testsOldRadius(a, x1, x2, y1, y2) ==
    IF a.radius < Px(MIN_RADIUS) THEN [some |-> FALSE]
    ELSE Fragments(a, a.radius \div 2, x1, x2, y1, y2)

Asteroid_split_halfMinRadius(a, x1, x2, y1, y2) ==
    IF a.radius \div 2 < Px(MIN_RADIUS) \div 2 THEN [some |-> FALSE]
    ELSE Fragments(a, a.radius \div 2, x1, x2, y1, y2)

Asteroid_split_scaledImpulse(a, x1, x2, y1, y2) ==
    IF a.radius \div 2 < Px(MIN_RADIUS) THEN [some |-> FALSE]
    ELSE Fragments(a, a.radius \div 2, 2 * x1, x2, y1, 2 * y2)

\* Asteroid::split, the four draws of the random generator being x1, x2, y1
\* and y2: None is [some |-> FALSE].
Asteroid_split(a, x1, x2, y1, y2) ==
    LET new_radius == a.radius \div 2
    IN  IF new_radius < Px(MIN_RADIUS) THEN [some |-> FALSE]
        ELSE Fragments(a, new_radius, x1, x2, y1, y2)

Asteroid_step(a, duration) ==
    [a EXCEPT !.momentum = Momentum_no_acceleration(a.momentum, duration)]

(***************************************************************************)
(* SpecAsteroid: one asteroid from new_big_asteroid, under step and split. *)
(* split consumes the asteroid; when it returns fragments the run goes on  *)
(* with either of them, so a behaviour follows one chain of splits.        *)
(* call.halvings counts the splits of the chain that returned fragments.   *)
(***************************************************************************)
RockStart ==
    {Asteroid_new_big_asteroid(Momentum_new(V2(Px(100), Px(100)), v, Playfield)) :
        v \in {V2_ZERO, V2(Px(-150), Px(50))}}

\* The asteroid has been moved into a split that returned None.
Consumed == call.op = "split" /\ ~call.ret.some

InitAsteroid ==
    /\ ship = Ship_new
    /\ pc = "idle"
    /\ dt = 0
    /\ canvas = Canvas_blank
    /\ screen = Canvas_blank
    /\ frame = 0
    /\ polled = 0
    /\ quitRequested = FALSE
    /\ keys = Keys_new
    /\ body = NoBody
    /\ twin = NoTwin
    /\ rock \in RockStart
    /\ call = [op |-> "none", n |-> 0, halvings |-> 0]

CallSplit(x1, x2, y1, y2, follow) ==
    LET ret == Asteroid_split(rock, x1, x2, y1, y2)
    IN  /\ ~Consumed
        /\ call' = [op |-> "split", pre |-> rock, ret |-> ret, n |-> call.n,
                    halvings |-> call.halvings + (IF ret.some THEN 1 ELSE 0)]
        /\ rock' = IF ~ret.some THEN rock
                   ELSE IF follow = 1 THEN ret.first ELSE ret.second
        /\ UNCHANGED <<keys, ship, pc, dt, canvas, screen, frame, polled,
                       quitRequested, body, twin>>

CallAsteroidStep(t) ==
    /\ ~Consumed
    /\ call.n < MaxCalls
    /\ rock' = Asteroid_step(rock, t)
    /\ call' = [op |-> "asteroid_step", time |-> t, pre |-> rock,
                n |-> call.n + 1, halvings |-> call.halvings]
    /\ UNCHANGED <<keys, ship, pc, dt, canvas, screen, frame, polled,
                   quitRequested, body, twin>>

NextAsteroid ==
    \/ \E follow \in {1, 2} :
         \E x1 \in GenRange(SplitDv(rock.radius \div 2)),
            x2 \in GenRange(SplitDv(rock.radius \div 2)),
            y1 \in GenRange(SplitDv(rock.radius \div 2)),
            y2 \in GenRange(SplitDv(rock.radius \div 2)) :
                CallSplit(x1, x2, y1, y2, follow)
    \/ \E t \in BodyDtSet : CallAsteroidStep(t)

SpecAsteroid == InitAsteroid /\ [][NextAsteroid]_vars

(***************************************************************************)
(* SpecBatch: the first two statements of the loop body, with_events on a  *)
(* whole batch and the quit test, iterated until the test stops the loop.  *)
(***************************************************************************)
\* The events the batches are made of: press and release of two quit keys
\* and a turn key, two key repeats, an unmapped key and a Quit event.
BatchEvents ==
    {e \in KeyEvents : e.key \in {"Q", "Escape", "Left"} /\ ~e.repeat}
      \cup {[type |-> "KeyDown", key |-> "Q", repeat |-> TRUE],
            [type |-> "KeyUp", key |-> "Left", repeat |-> TRUE],
            [type |-> "KeyDown", key |-> "A", repeat |-> FALSE],
            QuitEvent}

Batches == UNION {[1..n -> BatchEvents] : n \in 0..MaxBatch}

InitBatch ==
    /\ MainIdle
    /\ keys = Keys_new
    /\ body = NoBody
    /\ call = [op |-> "none", n |-> 0, stop |-> FALSE]

\* keys.with_events(&mut event_pump); if let Keys { quit: Down, .. } = keys
CallWithEvents(batch) ==
    /\ ~call.stop
    /\ call.n < MaxCalls
    /\ keys' = Keys_with_events(keys, batch)
    /\ call' = [op |-> "with_events", batch |-> batch, pre |-> keys,
                stop |-> QuitTest(keys'), n |-> call.n + 1]
    /\ UNCHANGED <<MainVars, ship, body>>

NextBatch == \E batch \in Batches : CallWithEvents(batch)

SpecBatch == InitBatch /\ [][NextBatch]_vars

(***************************************************************************)
(* SpecPair: two runs of the main loop side by side.  Both are fed the     *)
(* same dt values and the same events, except that each may also be fed    *)
(* fire (Space) and pause (P) key events the other is not.                 *)
(***************************************************************************)
\* A run of main: its keys, its ship, and whether the loop is running or
\* has left through the break.
Run_new == [keys |-> Keys_new, ship |-> Ship_new, state |-> "Running"]

\* The closure of with_events on one event of the run's batch.
Run_poll(r, e) == [r EXCEPT !.keys = HandleEvent(r.keys, e)]

\* Variant: the ship is not stepped while pause is down.
Run_frame_pauseFreezes(r, d) ==
    IF QuitTest(r.keys) THEN [r EXCEPT !.state = "Quitting"]
    ELSE IF KeyStatus_down(r.keys.pause) THEN r
    ELSE [r EXCEPT !.ship = Ship_step(r.ship, d, KeyStatus_down(r.keys.thrust),
                                      KeyStatus_down(r.keys.left),
                                      KeyStatus_down(r.keys.right))]

\* The rest of the iteration once the batch is polled: the quit test, and
\* if it does not break, the step of the ship with the elapsed time d.
Run_frame(r, d) ==
    IF QuitTest(r.keys) THEN [r EXCEPT !.state = "Quitting"]
    ELSE [r EXCEPT !.ship = Ship_step(r.ship, d, KeyStatus_down(r.keys.thrust),
                                      KeyStatus_down(r.keys.left),
                                      KeyStatus_down(r.keys.right))]

\* The events both runs get, and the fire and pause events one run may get
\* alone.
SharedEvents ==
    {[type |-> "KeyDown", key |-> "Up", repeat |-> FALSE],
     [type |-> "KeyDown", key |-> "Left", repeat |-> FALSE],
     [type |-> "KeyUp", key |-> "Left", repeat |-> FALSE],
     [type |-> "KeyDown", key |-> "Q", repeat |-> FALSE]}

PrivateEvents ==
    {[type |-> "KeyDown", key |-> "Space", repeat |-> FALSE],
     [type |-> "KeyDown", key |-> "P", repeat |-> FALSE],
     [type |-> "KeyUp", key |-> "P", repeat |-> FALSE]}

Running == twin[1].state = "Running" /\ twin[2].state = "Running"

InitPair ==
    /\ ship = Ship_new
    /\ pc = "idle"
    /\ dt = 0
    /\ canvas = Canvas_blank
    /\ screen = Canvas_blank
    /\ frame = 0
    /\ polled = 0
    /\ quitRequested = FALSE
    /\ rock = NoRock
    /\ keys = Keys_new
    /\ body = NoBody
    /\ call = [op |-> "none", n |-> 0, polled |-> 0]
    /\ twin = <<Run_new, Run_new>>

PairRest == <<pc, dt, canvas, screen, frame, polled, quitRequested, rock,
              keys, ship, body>>

\* Both runs poll the same event.
PairPoll(e) ==
    /\ Running
    /\ call.polled < MaxBatch
    /\ twin' = <<Run_poll(twin[1], e), Run_poll(twin[2], e)>>
    /\ call' = [op |-> "poll", n |-> call.n, polled |-> call.polled + 1]
    /\ UNCHANGED PairRest

\* One run polls a fire or pause event the other run's batch does not have.
PairPollAlone(i, e) ==
    /\ Running
    /\ call.polled < MaxBatch
    /\ twin' = [twin EXCEPT ![i] = Run_poll(twin[i], e)]
    /\ call' = [op |-> "poll_alone", n |-> call.n,
                polled |-> call.polled + 1]
    /\ UNCHANGED PairRest

\* Both runs finish the iteration with the same elapsed time.
PairFrame(d) ==
    /\ Running
    /\ call.n < MaxCalls
    /\ twin' = <<Run_frame(twin[1], d), Run_frame(twin[2], d)>>
    /\ call' = [op |-> "frame", n |-> call.n + 1, polled |-> 0]
    /\ UNCHANGED PairRest

NextPair ==
    \/ \E e \in SharedEvents : PairPoll(e)
    \/ \E i \in {1, 2} : \E e \in PrivateEvents : PairPollAlone(i, e)
    \/ \E d \in DtSet : PairFrame(d)

SpecPair == InitPair /\ [][NextPair]_vars

(***************************************************************************)
(* The claims.                                                             *)
(***************************************************************************)
InBounds(p, b) == 0 <= p[1] /\ p[1] < b[1] /\ 0 <= p[2] /\ p[2] < b[2]

Abs(x) == IF x >= 0 THEN x ELSE -x

\* C1 (Spec): once an Event::Quit has been polled in an iteration, the loop
\* is still polling, is at the quit test, or has stopped: it never goes on
\* to clear, step, draw, present or sleep in that iteration.
C1_QuitRequestStopsLoop ==
    quitRequested => pc \in {"events", "check", "done"}

\* C2 (SpecKeys): after the closure has handled a window-close or an
\* application-quit event the quit control is Down, whatever it was before.
C2_QuitEventSetsQuitDown ==
    (call.op = "event" /\ call.event \in {QuitEvent, WindowClose})
        => keys.quit = "Down"

\* C3 (Spec): at the quit test with the quit control active (Down or Held)
\* the loop goes to Quitting, and in Quitting nothing changes any more: no
\* ship step, no render, no present.
C3_ActiveQuitStops ==
    [][ /\ (pc = "check" /\ KeyStatus_down(keys.quit)) => pc' = "done"
        /\ pc = "done" => (pc' = "done" /\ ship' = ship /\ canvas' = canvas
                           /\ screen' = screen) ]_vars

C3_Witness ==
    /\ pc = "done"
    /\ frame = 1
    /\ keys.quit = "Down"
    /\ screen.content = "ship"

\* C4 (SpecShip): after any sequence of Ship::step calls the ship's position
\* lies in [0, bounds.x) x [0, bounds.y).
C4_PositionInPlayfield ==
    InBounds(ship.momentum.pos, ship.momentum.bounds)

\* C5 (Spec): when with_events returns, each of the six controls has been
\* advanced by one KeyStatus step from the status the events left it in.
C5_StepAfterEvents ==
    [][ (pc = "events" /\ pc' = "check")
            => \A c \in Controls : keys'[c] = KeyStatus_step(keys[c]) ]_vars

\* C6 (SpecKeys): a step of a control takes Down to Held, Held to Held and
\* Up to Up, never yields Down, leaves a status a further step would not
\* change, and touches no other control.
C6_KeyStatusStep ==
    call.op = "step" =>
        LET before == call.pre[call.ctl]
            after == keys[call.ctl]
        IN  /\ before = "Down" => after = "Held"
            /\ before = "Held" => after = "Held"
            /\ before = "Up" => after = "Up"
            /\ after # "Down"
            /\ KeyStatus_step(after) = after
            /\ \A c \in Controls \ {call.ctl} : keys[c] = call.pre[c]

C6_Witness ==
    /\ call.op = "step"
    /\ call.pre[call.ctl] = "Down"
    /\ keys[call.ctl] = "Held"

\* C7 (SpecKeys): down() answers true exactly when the status is Down or
\* Held, and leaves every status as it was.
C7_KeyStatusDown ==
    call.op = "down" =>
        /\ call.ret = (call.pre[call.ctl] \in {"Down", "Held"})
        /\ keys = call.pre

C7_Witness ==
    /\ call.op = "down"
    /\ keys[call.ctl] = "Held"
    /\ call.ret = TRUE

\* C8 (SpecKeys): a key event flagged as a repeat, or for a key that is not
\* mapped, leaves all six controls as they were; a non-repeat event for a
\* mapped key sets the one control the key maps to (Down on key-down, Up on
\* key-up) and leaves the other five as they were.
MappedKeys == {"Up", "Left", "Right", "Space", "P", "Q", "Escape"}

C8_EventFiltering ==
    (call.op = "event" /\ call.event.type \in {"KeyDown", "KeyUp"}) =>
        LET e == call.event
        IN  IF e.repeat \/ e.key \notin MappedKeys
            THEN keys = call.pre
            ELSE /\ keys[KeyControl(e.key)] =
                        (IF e.type = "KeyDown" THEN "Down" ELSE "Up")
                 /\ \A c \in Controls \ {KeyControl(e.key)} :
                        keys[c] = call.pre[c]

C8_Witness ==
    /\ call.op = "event"
    /\ call.event = [type |-> "KeyDown", key |-> "Up", repeat |-> TRUE]
    /\ call.pre.thrust = "Up"
    /\ call.pre.left = "Held"
    /\ keys = call.pre

\* C9 (SpecBody): when the position before an integration step is in the
\* playfield and the step's displacement is less than the playfield on each
\* axis, the wrapped position is in the playfield.
StepDisplacement ==
    LET m == call.pre
        d == V2_add(V2_mul(m.vel, call.time, TicksPerSec),
                    V2_mul(V2_mul(V2_mul(call.acceleration, 1, 2),
                                  call.time, TicksPerSec),
                           call.time, TicksPerSec))
    IN  d

C9_WrapInBounds ==
    (/\ call.op \in {"apply_acceleration", "no_acceleration"}
     /\ InBounds(call.pre.pos, call.pre.bounds)
     /\ Abs(StepDisplacement[1]) < call.pre.bounds[1]
     /\ Abs(StepDisplacement[2]) < call.pre.bounds[2])
        => InBounds(body.pos, body.bounds)

\* A step that leaves the playfield on the low side of x and on the high
\* side of y and is wrapped back on both.
C9_Witness ==
    /\ call.op \in {"apply_acceleration", "no_acceleration"}
    /\ InBounds(call.pre.pos, call.pre.bounds)
    /\ Abs(StepDisplacement[1]) < call.pre.bounds[1]
    /\ Abs(StepDisplacement[2]) < call.pre.bounds[2]
    /\ call.pre.pos[1] + StepDisplacement[1] < 0
    /\ call.pre.pos[2] + StepDisplacement[2] >= call.pre.bounds[2]
    /\ InBounds(body.pos, body.bounds)

\* C10 (SpecBody): apply_acceleration(dt, a) leaves
\* pos = wrap(pos + vel*dt + a*0.5*dt*dt, bounds) with the velocity from
\* before the call, vel = vel + a*dt, and bounds as they were.
C10_ApplyAcceleration ==
    call.op = "apply_acceleration" =>
        LET m == call.pre
        IN  /\ body.pos = V2_rem(V2_add(m.pos, StepDisplacement), m.bounds)
            /\ body.vel = V2_add(m.vel, V2_mul(call.acceleration, call.time,
                                               TicksPerSec))
            /\ body.bounds = m.bounds

C10_Witness ==
    /\ call.op = "apply_acceleration"
    /\ call.time > 0
    /\ call.pre.vel # V2_ZERO
    /\ body.vel # call.pre.vel
    /\ body.pos # V2_add(call.pre.pos, StepDisplacement)
    /\ InBounds(body.pos, body.bounds)

\* C11 (SpecBody): no_acceleration(dt) is linear drift: it leaves
\* pos = wrap(pos + vel*dt, bounds) and the velocity (and the bounds) as
\* they were.
C11_NoAccelerationDrift ==
    call.op = "no_acceleration" =>
        LET m == call.pre
        IN  /\ body.pos = V2_rem(V2_add(m.pos,
                                        V2_mul(m.vel, call.time, TicksPerSec)),
                                 m.bounds)
            /\ body.vel = m.vel
            /\ body.bounds = m.bounds

\* A second drift in a row, of a moving body, over a positive time.
C11_Witness ==
    /\ call.op = "no_acceleration"
    /\ call.n = 2
    /\ call.time > 0
    /\ call.pre.vel # V2_ZERO
    /\ body.vel = call.pre.vel
    /\ body.pos # call.pre.pos

\* C12 (SpecAsteroid): from radius 32 a chain of splits makes exactly two
\* halvings, 32 to 16 and 16 to 8, and then ends: split returns None exactly
\* when radius / 2 < MIN_RADIUS, which first happens after the second
\* halving.
C12_SplitTerminates ==
    /\ call.halvings \in 0..2
    /\ rock.radius = CASE call.halvings = 0 -> Px(32)
                       [] call.halvings = 1 -> Px(16)
                       [] OTHER             -> Px(8)
    /\ call.op = "split" =>
          /\ ~call.ret.some <=> (call.pre.radius \div 2 < Px(MIN_RADIUS))
          /\ ~call.ret.some => call.halvings = 2

\* The chain has ended: two halvings, then a split that returned None.
C12_Witness ==
    /\ call.op = "split"
    /\ ~call.ret.some
    /\ call.halvings = 2
    /\ call.pre.radius = Px(8)

\* C13, as claimed (SpecAsteroid): split of an asteroid of radius 8 returns
\* fragments of radius 4.
C13_SplitOfEightYieldsFour ==
    (call.op = "split" /\ call.pre.radius = Px(8)) =>
        /\ call.ret.some
        /\ call.ret.first.radius = Px(4)
        /\ call.ret.second.radius = Px(4)

\* C13, amended (SpecAsteroid): split of an asteroid of radius 8 computes
\* the new radius 4 < MIN_RADIUS and returns None; no asteroid of radius 4
\* ever exists.
C13_SplitOfEightYieldsNone ==
    /\ (call.op = "split" /\ call.pre.radius = Px(8)) => ~call.ret.some
    /\ rock.radius # Px(4)

C13_Witness ==
    /\ call.op = "split"
    /\ call.pre.radius = Px(8)
    /\ call.pre.momentum.vel # V2_ZERO
    /\ ~call.ret.some

\* C14 (SpecAsteroid): a split that returns fragments returns two, each of
\* half the parent's radius, at the parent's position and with its bounds,
\* and with each velocity component within dv = VELOCITY_CHANGE / new_radius
\* of the parent's.
FragmentOf(f, parent) ==
    LET new_radius == parent.radius \div 2
        dv == F64_div(Px(VELOCITY_CHANGE), new_radius)
    IN  /\ 2 * f.radius = parent.radius
        /\ f.momentum.pos = parent.momentum.pos
        /\ f.momentum.bounds = parent.momentum.bounds
        /\ Abs(f.momentum.vel[1] - parent.momentum.vel[1]) <= dv
        /\ Abs(f.momentum.vel[2] - parent.momentum.vel[2]) <= dv

C14_SplitFragments ==
    (call.op = "split" /\ call.ret.some) =>
        /\ DOMAIN call.ret = {"some", "first", "second"}
        /\ FragmentOf(call.ret.first, call.pre)
        /\ FragmentOf(call.ret.second, call.pre)

\* A split of a drifting asteroid of radius 16, away from where it started,
\* whose four offsets are -dv, dv - 1, 0 and -dv: the fragments differ from
\* each other on both axes.
C14_Witness ==
    /\ call.op = "split"
    /\ call.ret.some
    /\ call.pre.radius = Px(16)
    /\ call.pre.momentum.pos # V2(Px(100), Px(100))
    /\ call.ret.first.momentum.vel[1] - call.pre.momentum.vel[1] = -Px(625)
    /\ call.ret.second.momentum.vel[1] - call.pre.momentum.vel[1] = Px(625) - 1
    /\ call.ret.first.momentum.vel[2] = call.pre.momentum.vel[2]
    /\ call.ret.second.momentum.vel[2] - call.pre.momentum.vel[2] = -Px(625)

\* C15 (SpecShip): after any sequence of Ship::step calls that all had left
\* active and right inactive, the angle is the initial angle of Ship::new
\* minus ANGULAR_ACCEL times the sum of the durations, whatever the thrust
\* input of each call was.
C15_LeftTurnAccumulates ==
    (call.op = "ship_step" /\ call.onlyLeft) =>
        ship.angle = Ship_new.angle
                       - (Px(ANGULAR_ACCEL) * call.elapsed) \div TicksPerSec

\* Two left-only steps of positive duration, the second one thrusting.
C15_Witness ==
    /\ call.op = "ship_step"
    /\ call.onlyLeft
    /\ call.n = 2
    /\ call.thrust
    /\ call.time > 0
    /\ call.elapsed > call.time
    /\ ship.angle < call.pre.angle
    /\ call.pre.angle < 0

\* C16 (SpecShip): a step with left and right both active leaves the angle
\* as it was and gives the ship the angle, position, velocity and thrust
\* flag of the same step with neither active.
C16_LeftRightCancel ==
    (call.op = "ship_step" /\ call.left /\ call.right) =>
        /\ ship.angle = call.pre.angle
        /\ ship = Ship_step(call.pre, call.time, call.thrust, FALSE, FALSE)

\* A thrusting step of positive duration with both turn keys active, of a
\* ship that had turned before.
C16_Witness ==
    /\ call.op = "ship_step"
    /\ call.left
    /\ call.right
    /\ call.thrust
    /\ call.time > 0
    /\ call.pre.angle # 0
    /\ ship.momentum.vel # call.pre.momentum.vel

\* C17 (Spec): an iteration of the main loop goes through poll events, quit
\* check, clear, step, draw, present, sleep in that order; the ship changes
\* only in the step, by one Ship::step with the iteration's dt and the
\* polled keys; the canvas changes only in clear and draw, and what is
\* presented is the drawing of the stepped ship; a quit check that stops
\* the loop is followed by nothing.
FrameOrder ==
    /\ pc = "events"  => pc' \in {"events", "check"}
    /\ pc = "check"   => pc' = IF QuitTest(keys) THEN "done" ELSE "clear"
    /\ pc = "clear"   => pc' = "step"
    /\ pc = "step"    => pc' = "draw"
    /\ pc = "draw"    => pc' = "present"
    /\ pc = "present" => pc' = "sleep"
    /\ pc = "sleep"   => pc' = "events" /\ frame' = frame + 1
    /\ pc = "done"    => UNCHANGED vars
    /\ pc # "sleep"   => frame' = frame

SteppedOnce ==
    /\ pc = "step" =>
          ship' = Ship_step(ship, dt, KeyStatus_down(keys.thrust),
                            KeyStatus_down(keys.left),
                            KeyStatus_down(keys.right))
    /\ pc # "step" => ship' = ship
    /\ pc # "events" => keys' = keys
    /\ pc = "draw" => canvas' = Ship_draw(ship)
    /\ pc \notin {"clear", "draw"} => canvas' = canvas
    /\ pc = "present" => screen' = canvas
    /\ pc # "present" => screen' = screen

C17_FrameOrdering ==
    /\ [](pc \in {"present", "sleep"} => canvas = Ship_draw(ship))
    /\ [](pc = "sleep" => screen = Ship_draw(ship))
    /\ [](pc \in {"step", "draw"} => canvas = Canvas_clear)
    /\ [][FrameOrder /\ SteppedOnce]_vars

\* The second iteration has stepped, drawn and presented a ship that moves.
C17_Witness ==
    /\ pc = "sleep"
    /\ frame = 1
    /\ dt > 0
    /\ ship.momentum.vel # V2_ZERO
    /\ ship.momentum.pos # Ship_new.momentum.pos
    /\ screen = Ship_draw(ship)

\* C18 (Spec): in every state of the running program each of the six
\* controls is Up or Down, never Held, so the quit test of the main loop
\* (quit status equals Down) agrees with quit.down().
C18_NeverHeld ==
    /\ \A c \in Controls : keys[c] \in {"Up", "Down"}
    /\ QuitTest(keys) <=> KeyStatus_down(keys.quit)

\* A control that stayed down over an iteration is still Down in the next
\* one, where the quit test stops the loop.
C18_Witness ==
    /\ pc = "done"
    /\ frame = 1
    /\ polled = 1
    /\ keys.quit = "Down"
    /\ keys.left = "Down"

\* C19 (SpecBatch): after with_events on a batch each control is Down if
\* the last non-repeat event of one of its keys in the batch was a key-down,
\* Up if it was a key-up, and as before if the batch had none; a quit key
\* pressed and then released in the batch leaves quit Up and the quit test
\* does not stop the loop.
ControlKeys(c) ==
    CASE c = "thrust" -> {"Up"}
      [] c = "left"   -> {"Left"}
      [] c = "right"  -> {"Right"}
      [] c = "fire"   -> {"Space"}
      [] c = "pause"  -> {"P"}
      [] c = "quit"   -> {"Q", "Escape"}

Recognised(batch, c) ==
    {i \in 1..Len(batch) : /\ batch[i].type \in {"KeyDown", "KeyUp"}
                           /\ ~batch[i].repeat
                           /\ batch[i].key \in ControlKeys(c)}

LastOf(S) == CHOOSE i \in S : \A j \in S : j <= i

LastWins(pre, batch, c) ==
    IF Recognised(batch, c) = {} THEN pre[c]
    ELSE IF batch[LastOf(Recognised(batch, c))].type = "KeyDown"
         THEN "Down" ELSE "Up"

PressedThenReleased(batch, c) ==
    /\ Recognised(batch, c) # {}
    /\ batch[LastOf(Recognised(batch, c))].type = "KeyUp"
    /\ \E i \in Recognised(batch, c) : batch[i].type = "KeyDown"

C19_LastEventWins ==
    call.op = "with_events" =>
        /\ \A c \in Controls : keys[c] = LastWins(call.pre, call.batch, c)
        /\ call.stop <=> (LastWins(call.pre, call.batch, "quit") = "Down")
        /\ PressedThenReleased(call.batch, "quit") =>
              keys.quit = "Up" /\ ~call.stop

\* The second iteration, with left down from the first: a quit key is
\* pressed and released in the batch, and the loop goes on.
C19_Witness ==
    /\ call.op = "with_events"
    /\ call.n = 2
    /\ call.pre.left = "Down"
    /\ Len(call.batch) = 2
    /\ call.batch[1].type = "KeyDown"
    /\ call.batch[2].type = "KeyUp"
    /\ PressedThenReleased(call.batch, "quit")
    /\ keys.quit = "Up"
    /\ ~call.stop

\* C20 (SpecPair): two runs fed the same dt values and event batches that
\* differ only in fire and pause events have the same ship (angle, thrust
\* flag, position, velocity) and the same Running/Quitting state after
\* every iteration, and agree on every control but fire and pause.
C20_FirePauseNoEffect ==
    /\ twin[1].ship = twin[2].ship
    /\ twin[1].state = twin[2].state
    /\ \A c \in Controls \ {"fire", "pause"} :
          twin[1].keys[c] = twin[2].keys[c]

\* After the second iteration: the first run has fire and pause down, the
\* second has neither, and the ship has turned and is moving.
C20_Witness ==
    /\ call.op = "frame"
    /\ call.n = 2
    /\ twin[1].keys.fire = "Down"
    /\ twin[1].keys.pause = "Down"
    /\ twin[2].keys.fire = "Up"
    /\ twin[2].keys.pause = "Up"
    /\ twin[1].ship.momentum.vel # V2_ZERO
    /\ twin[1].ship.angle # 0
    /\ twin[1].ship.momentum.pos # Ship_new.momentum.pos

=============================================================================
